---- MODULE Spec2Model ----
(***************************************************************************)
(* Model of inseadnews.py: a single-threaded batch job that scrapes the    *)
(* INSEAD newsroom feed and mirrors new articles into an Airtable table,   *)
(* deduplicating by normalized article URL.                                *)
(*                                                                         *)
(* URLs are sequences of one-character strings so that urlparse, urljoin   *)
(* and normalize_url can be computed character by character.  The scheme  *)
(* "h" stands for "https" (a scheme urljoin treats as relative-capable)    *)
(* and the host "w" for "www.insead.edu".                                  *)
(***************************************************************************)
EXTENDS Integers, Sequences, FiniteSets, TLC

(***************************************************************************)
(* Bounds of the model.                                                    *)
(***************************************************************************)
\* longest input string given to normalize_url in SpecNorm
MaxLen == 5
\* most cards on one feed page
MaxCards == 2
\* most update-commands in one incremental response
MaxCmds == 2
\* highest value page_num may take (the loop of main is unbounded)
MaxPage == 3

(***************************************************************************)
(* Strings as sequences of characters.                                     *)
(***************************************************************************)
SeqsUpTo(S, n) == UNION {[1..k -> S] : k \in 0..n}

\* str.find(c): the first position of c in s (1-based), 0 when absent
Find(s, c) ==
    IF \E i \in 1..Len(s) : s[i] = c
    THEN CHOOSE i \in 1..Len(s) : s[i] = c /\ \A j \in 1..(i-1) : s[j] # c
    ELSE 0

\* s[i:] of Python with a 1-based first position
From(s, i) == SubSeq(s, i, Len(s))

\* s[:i] of Python: the characters before 1-based position i
Before(s, i) == SubSeq(s, 1, i - 1)

\* str.rstrip("/"): every trailing slash is removed
RECURSIVE RStripSlash(_)
RStripSlash(s) ==
    IF Len(s) > 0 /\ s[Len(s)] = "/" THEN RStripSlash(Before(s, Len(s))) ELSE s

(***************************************************************************)
(* urllib.parse.urlsplit / urlparse, restricted to the characters of the   *)
(* model: letters, ":", "/", "?", "#", "[".                                *)
(***************************************************************************)
Letters == {"h", "w", "x", "y", "q", "f", "t"}

\* scheme, url = url[:i].lower(), url[i+1:] when url[:i] is a valid scheme
HasScheme(url) ==
    LET i == Find(url, ":")
    IN  /\ i > 1
        /\ \A j \in 1..(i-1) : url[j] \in Letters

SchemeOf(url) == IF HasScheme(url) THEN Before(url, Find(url, ":")) ELSE <<>>

AfterScheme(url) == IF HasScheme(url) THEN From(url, Find(url, ":") + 1) ELSE url

\* url[:2] == '//'
HasNetloc(rest) == Len(rest) >= 2 /\ rest[1] = "/" /\ rest[2] = "/"

\* _splitnetloc(url, 2): the netloc ends at the first of "/", "?", "#"
NetlocEnd(rest) ==
    LET stops == {i \in 3..Len(rest) : rest[i] \in {"/", "?", "#"}}
    IN  IF stops = {} THEN Len(rest) + 1
        ELSE CHOOSE i \in stops : \A j \in stops : i <= j

NetlocOf(url) ==
    LET rest == AfterScheme(url)
    IN  IF HasNetloc(rest) THEN SubSeq(rest, 3, NetlocEnd(rest) - 1) ELSE <<>>

AfterNetloc(url) ==
    LET rest == AfterScheme(url)
    IN  IF HasNetloc(rest) THEN From(rest, NetlocEnd(rest)) ELSE rest

\* url.split('#', 1)[0], then url.split('?', 1)[0]
CutAt(s, c) == IF Find(s, c) > 0 THEN Before(s, Find(s, c)) ELSE s

PathOf(url) == CutAt(CutAt(AfterNetloc(url), "#"), "?")

\* raise ValueError("Invalid IPv6 URL"): "[" in the netloc without "]"
RaisesValueError(url) == \E i \in 1..Len(NetlocOf(url)) : NetlocOf(url)[i] = "["

\* the value standing for an exception raised by urlparse
ValueError == <<"ValueError">>

(***************************************************************************)
(* normalize_url (lines 40-43).                                            *)
(***************************************************************************)
normalize_url(url) ==
    IF RaisesValueError(url) THEN ValueError
    ELSE RStripSlash(SchemeOf(url) \o <<":", "/", "/">> \o NetlocOf(url) \o PathOf(url))

(***************************************************************************)
(* urllib.parse.urljoin(BASE_URL, href) as used on line 119.  Dot segments *)
(* and empty inner path segments (which urljoin rewrites) do not occur in  *)
(* the hrefs of the model.                                                 *)
(***************************************************************************)
\* BASE_URL = "https://www.insead.edu" (line 24)
BASE_URL == <<"h", ":", "/", "/", "w">>

urljoin(base, url) ==
    IF url = <<>> THEN base
    ELSE IF RaisesValueError(url) THEN ValueError
    ELSE IF SchemeOf(url) # <<>> /\ SchemeOf(url) # SchemeOf(base) THEN url
    ELSE IF NetlocOf(url) # <<>>
         THEN SchemeOf(base) \o <<":", "/", "/">> \o NetlocOf(url) \o AfterNetloc(url)
    ELSE IF PathOf(url) = <<>> \/ PathOf(url)[1] = "/" THEN base \o AfterNetloc(url)
    ELSE base \o <<"/">> \o AfterNetloc(url)

(***************************************************************************)
(* Feed cards.  A card is what process_and_add_articles reads of a         *)
(* div.card-object: whether a link tag with an href was found, and the     *)
(* href.                                                                   *)
(***************************************************************************)
Hrefs ==
    { <<"/", "x">>,
      <<"/", "x", "/", "?", "q">>,
      <<"/", "y">> }

NoLinkCard == [has_link |-> FALSE, href |-> <<>>]

Cards == {[has_link |-> TRUE, href |-> h] : h \in Hrefs} \cup {NoLinkCard}

CardLists == SeqsUpTo(Cards, MaxCards)

\* current_article_url = normalize_url(urljoin(BASE_URL, link_tag['href']))
CardUrl(card) ==
    LET joined == urljoin(BASE_URL, card.href)
    IN  IF joined = ValueError THEN ValueError ELSE normalize_url(joined)

(***************************************************************************)
(* Records of the Airtable table before the run.  A record has the         *)
(* article-URL field, or only the title field, or neither ("absent").      *)
(***************************************************************************)
NoField == <<"absent">>

StoredRecords ==
    { [url |-> <<"h", ":", "/", "/", "w", "/", "x", "/">>, title |-> <<"t">>],
      [url |-> NoField, title |-> <<"t">>] }

\* lines 176-181: the key one record adds to existing_urls
RecordKey(record) ==
    IF record.url # NoField THEN normalize_url(record.url)
    ELSE normalize_url(record.title)

\* the tables a run may start from: an empty one, and one holding the records
InitialTables == {{}, StoredRecords}

\* lines 173-182: existing_urls as loaded from table.all()
LoadedUrls(records) ==
    {RecordKey(r) : r \in {q \in records : q.url # NoField \/ q.title # NoField}}

(***************************************************************************)
(* Pagination tokens (lines 191-194) and the page content they are         *)
(* resolved from (lines 210-289).                                          *)
(***************************************************************************)
\* view_dom_id = "2bcf87ff..." (line 192)
HardDomId == "2bcf87ff"
\* view_name = "newsroom_archive" (line 193)
HardViewName == "newsroom_archive"
\* view_display_id = "news_room_archive_page" (line 194)
HardDisplayId == "news_room_archive_page"

\* a key missing from a dict, a regex that found nothing
Absent == "absent"

\* the path main matches ajax_view_data['view_path'] against (line 245)
FeedPath == "/newsroom/news"

\* entries of drupal_settings_json['views']: each is view_data['ajax'], or a
\* view_data without an 'ajax' key
ViewEntries ==
    { [ajax |-> TRUE, view_path |-> FeedPath, view_name |-> "dyn_view",
       view_display_id |-> "dyn_page", dom_id |-> "d0d0"],
      [ajax |-> TRUE, view_path |-> FeedPath, view_name |-> "dyn_view",
       view_display_id |-> "dyn_page", dom_id |-> Absent],
      [ajax |-> TRUE, view_path |-> FeedPath, view_name |-> Absent,
       view_display_id |-> "dyn_page", dom_id |-> "d0d0"],
      [ajax |-> TRUE, view_path |-> "/other", view_name |-> "dyn_view",
       view_display_id |-> "dyn_page", dom_id |-> "d0d0"],
      [ajax |-> FALSE, view_path |-> FeedPath, view_name |-> "dyn_view",
       view_display_id |-> "dyn_page", dom_id |-> "d0d0"] }

\* most entries in drupal_settings_json['views']
MaxViews == 2

\* drupal_settings_json after lines 211-226: found is FALSE for None (no
\* script tag, or no JSON that parses), nonempty is FALSE for the dict {}
NoSettings == [found |-> FALSE, nonempty |-> FALSE, views |-> <<>>]

SettingsValues ==
    {NoSettings, [found |-> TRUE, nonempty |-> FALSE, views |-> <<>>]}
    \cup {[found |-> TRUE, nonempty |-> TRUE, views |-> v] : v \in SeqsUpTo(ViewEntries, MaxViews)}

\* what lines 268-279 read of the raw page: whether response.content decodes
\* as UTF-8, and what the pattern 'view_dom_id': '([a-f0-9]+)' finds in it
PageTexts == [decodable : BOOLEAN, regex_dom_id : {Absent, "abcd"}]

NoPageText == [decodable |-> TRUE, regex_dom_id |-> Absent]

\* if drupal_settings_json: (line 228)
Truthy(settings) == settings.found /\ settings.nonempty

\* lines 242-245: an entry of views whose ajax descriptor names the feed path
PathMatches(entry) == entry.ajax /\ entry.view_path = FeedPath

\* line 246: 'view_name' in ajax_view_data and 'view_display_id' in ajax_view_data
HasNames(entry) == entry.view_name # Absent /\ entry.view_display_id # Absent

\* lines 242-256: the position of the entry the loop breaks at, 0 when none
MatchedEntry(views) ==
    LET hits == {i \in 1..Len(views) : PathMatches(views[i]) /\ HasNames(views[i])}
    IN  IF hits = {} THEN 0 ELSE CHOOSE i \in hits : \A j \in hits : i <= j

Tokens(ok, name, display, dom, event) ==
    [ok |-> ok, view_name |-> name, view_display_id |-> display,
     view_dom_id |-> dom, event |-> event]

\* a faulty variant: a resolver that gives up when neither strategy finds a token
ResolveOrAbort(settings, text) ==
    IF Truthy(settings) /\ MatchedEntry(settings.views) # 0
    THEN LET e == settings.views[MatchedEntry(settings.views)]
         IN  Tokens(TRUE, e.view_name, e.view_display_id,
                    IF e.dom_id # Absent THEN e.dom_id ELSE HardDomId, "settings")
    ELSE IF text.decodable /\ text.regex_dom_id # Absent
    THEN Tokens(TRUE, HardViewName, HardDisplayId, text.regex_dom_id, "regex")
    ELSE Tokens(FALSE, HardViewName, HardDisplayId, HardDomId, "initial_failed")

\* a faulty variant: a resolver whose fallback branch never looks at the page text
ResolveNoRegex(settings, text) ==
    IF Truthy(settings) /\ MatchedEntry(settings.views) # 0
    THEN LET e == settings.views[MatchedEntry(settings.views)]
         IN  Tokens(TRUE, e.view_name, e.view_display_id,
                    IF e.dom_id # Absent THEN e.dom_id ELSE HardDomId, "settings")
    ELSE Tokens(TRUE, HardViewName, HardDisplayId, HardDomId, "hardcoded")

\* lines 228-289: the tokens main leaves the initial page with.  ok is FALSE
\* when the block raises (line 268 on a page that is not UTF-8), which the
\* handler of lines 294-297 turns into a return.  event names the branch:
\*   "settings"       line 249 (and 254 when the entry has a dom_id)
\*   "settings_miss"  lines 259-264, no entry matched
\*   "regex"          line 282
\*   "hardcoded"      line 284
Resolve(settings, text) ==
    IF Truthy(settings)
    THEN IF MatchedEntry(settings.views) # 0
         THEN LET e == settings.views[MatchedEntry(settings.views)]
              IN  Tokens(TRUE, e.view_name, e.view_display_id,
                         IF e.dom_id # Absent THEN e.dom_id ELSE HardDomId, "settings")
         ELSE Tokens(TRUE, HardViewName, HardDisplayId, HardDomId, "settings_miss")
    ELSE IF ~text.decodable
         THEN Tokens(FALSE, HardViewName, HardDisplayId, HardDomId, "initial_failed")
         ELSE IF text.regex_dom_id # Absent
              THEN Tokens(TRUE, HardViewName, HardDisplayId, text.regex_dom_id, "regex")
              ELSE Tokens(TRUE, HardViewName, HardDisplayId, HardDomId, "hardcoded")

(***************************************************************************)
(* Responses of the incremental endpoint (lines 321-379).                  *)
(***************************************************************************)
\* str.replace('_', '-') on the view names of the model (line 364)
Hyphenated(name) ==
    CASE name = "newsroom_archive" -> "newsroom-archive"
      [] name = "news_room_archive_page" -> "news-room-archive-page"
      [] name = "dyn_view" -> "dyn-view"
      [] name = "dyn_page" -> "dyn-page"
      [] OTHER -> name

\* f".js-view-dom-id-{view_dom_id}" (line 360)
DomSelector(dom) == <<".js-view-dom-id-", dom>>

\* f".block-views-block{view_name.replace('_', '-')}-{view_display_id.replace('_', '-')} .view-content"
BlockSelector(name, display) ==
    <<".block-views-block", Hyphenated(name), "-", Hyphenated(display), " .view-content">>

ViewContentSelector == <<".view-content">>

BlockInseadSelector == <<"#block-insead-content">>

\* lines 360-375: the selectors an insert command is taken from
Accepted(selector, name, display, dom) ==
    \/ selector = DomSelector(dom)
    \/ selector = BlockSelector(name, display)
    \/ selector = ViewContentSelector
    \/ selector = BlockInseadSelector

\* the selectors a response to a request for (name, display, dom) may carry:
\* the ones the request names, the two generic ones, and one that is none of them
Selectors(name, display, dom) ==
    { DomSelector(dom), BlockSelector(name, display), ViewContentSelector,
      BlockInseadSelector, <<"body">> }

\* an update-command: its kind, its selector, and its data: a non-empty HTML
\* string ("html"), the empty string ("") or no data key (Absent)
Commands(name, display, dom) ==
    {[command |-> "insert", selector |-> sel, data |-> "html"] :
        sel \in Selectors(name, display, dom)}
    \cup { [command |-> "insert", selector |-> ViewContentSelector, data |-> ""],
           [command |-> "settings", selector |-> ViewContentSelector, data |-> "html"] }

\* response_json when the body holds a JSON list of commands
CommandLists(name, display, dom) == SeqsUpTo(Commands(name, display, dom), MaxCmds)

\* what scraper.get and the parsing of lines 322-352 can meet:
\*   "http_error"    the request raises, or raise_for_status does
\*   "json"          the body is a JSON list of commands
\*   "textarea_json" the body is not JSON; its textarea holds a JSON list
\*   "textarea_bad"  the body is not JSON; its textarea does not hold JSON
\*   "not_json"      the body is not JSON and holds no textarea
\*   "null"          the body is the JSON value null
\*   "object"        the body is a JSON object: iterating it yields its keys,
\*                   and command.get raises on the first of them
ResponseKinds ==
    {"http_error", "json", "textarea_json", "textarea_bad", "not_json", "null", "object"}

NoResponse == "none"

\* a faulty variant: an insert command is taken whatever its selector
SelectHtmlAnySelector(commands, name, display, dom) ==
    LET hits == {i \in 1..Len(commands) :
                    commands[i].command = "insert" /\ commands[i].data # Absent}
    IN  IF hits = {} THEN ""
        ELSE commands[CHOOSE i \in hits : \A j \in hits : i <= j].data

\* lines 354-375: new_cards_html, the data of the first insert command with
\* data whose selector is accepted ("" when there is none)
SelectHtml(commands, name, display, dom) ==
    LET hits == {i \in 1..Len(commands) :
                    /\ commands[i].command = "insert"
                    /\ commands[i].data # Absent
                    /\ Accepted(commands[i].selector, name, display, dom)}
    IN  IF hits = {} THEN ""
        ELSE commands[CHOOSE i \in hits : \A j \in hits : i <= j].data

\* lines 322-352 and 393-396: how the parsing of a body of the given kind ends
\*   "http_error"     lines 322-323 raise; the handler of lines 393-396
\*   "command_error"  line 357 raises; the handler of lines 393-396
\*   "unparseable"    lines 341-352
\*   "parsed"         response_json is a list of commands
BodyOutcome(kind) ==
    CASE kind = "http_error" -> "http_error"
      [] kind = "object" -> "command_error"
      [] kind \in {"textarea_bad", "not_json", "null"} -> "unparseable"
      [] OTHER -> "parsed"

(***************************************************************************)
(* State of one run of main().                                             *)
(***************************************************************************)
VARIABLES
    pc,                        \* the position of main
    api_key,                   \* AIRTABLE_API_KEY is set (line 13)
    table_records,             \* the records of the table before the run
    existing_urls,             \* existing_urls (line 173)
    created,                   \* the URLs of the records table.create stored, in order
    create_calls,              \* how many times table.create was called (line 152)
    added_count,               \* added_count[0]
    skipped_duplicates_count,  \* skipped_duplicates_count[0]
    article_cards,             \* the article_cards of the running process_and_add_articles
    card_index,                \* how many of them the for loop of line 101 has taken
    outcomes,                  \* what the loop logged for each of them
    drupal_settings_json,      \* drupal_settings_json (lines 211-226)
    page_text,                 \* the raw text of the initial page (lines 268-279)
    view_name,
    view_display_id,
    view_dom_id,
    page_num,
    response,                  \* the kind of response the incremental endpoint gave
    response_json,             \* response_json: the commands parsed from its body
    new_cards_html,            \* new_cards_html (line 354)
    initial_requests,          \* requests made for the initial page (line 201)
    ajax_requests,             \* requests made to AJAX_ENDPOINT (line 322)
    event,                     \* the branch main last logged
    summary,                   \* the counts of the final message (lines 401-402)
    norm_trace                 \* SpecNorm: a string and its successive normalizations

vars ==
    << pc, api_key, table_records, existing_urls, created, create_calls, added_count,
       skipped_duplicates_count, article_cards, card_index, outcomes,
       drupal_settings_json, page_text, view_name, view_display_id, view_dom_id,
       page_num, response, response_json, new_cards_html, initial_requests,
       ajax_requests, event, summary,
       norm_trace >>

store_vars == <<existing_urls, created, create_calls, added_count, skipped_duplicates_count>>

batch_vars == <<article_cards, card_index, outcomes>>

token_vars == <<view_name, view_display_id, view_dom_id>>

page_vars == <<drupal_settings_json, page_text>>

net_vars == <<initial_requests, ajax_requests>>

ajax_vars == <<response, response_json, new_cards_html>>

NoSummary == <<-1, -1>>

Init ==
    /\ pc = "start"
    /\ api_key \in BOOLEAN
    /\ table_records \in InitialTables
    /\ existing_urls = {}
    /\ created = <<>>
    /\ create_calls = 0
    /\ added_count = 0
    /\ skipped_duplicates_count = 0
    /\ article_cards = <<>>
    /\ card_index = 0
    /\ outcomes = <<>>
    /\ drupal_settings_json = NoSettings
    /\ page_text = NoPageText
    /\ view_name = HardViewName
    /\ view_display_id = HardDisplayId
    /\ view_dom_id = HardDomId
    /\ page_num = 2
    /\ response = NoResponse
    /\ response_json = <<>>
    /\ new_cards_html = ""
    /\ initial_requests = 0
    /\ ajax_requests = 0
    /\ event = "started"
    /\ summary = NoSummary
    /\ norm_trace = <<>>

(***************************************************************************)
(* main, lines 165-186: the credential and the existing URLs.              *)
(***************************************************************************)
\* a faulty variant: the check of the credential never fires
CredentialMissingNever(key) == FALSE

\* line 165: if not AIRTABLE_API_KEY
CredentialMissing(key) == ~key

\* lines 165-171
CheckCredential ==
    /\ pc = "start"
    /\ IF CredentialMissing(api_key)
       THEN pc' = "aborted" /\ event' = "no_api_key"
       ELSE pc' = "load" /\ event' = "api_ready"
    /\ UNCHANGED <<api_key, table_records, store_vars, batch_vars, page_vars,
                   token_vars, page_num, ajax_vars, net_vars, summary, norm_trace>>

\* lines 173-186: table.all() succeeds and every record is read, or it raises
LoadExisting ==
    /\ pc = "load"
    /\ \E ok \in BOOLEAN :
         IF ok
         THEN /\ existing_urls' = LoadedUrls(table_records)
              /\ pc' = "fetch_initial"
              /\ event' = "loaded"
         ELSE /\ existing_urls' = existing_urls
              /\ pc' = "aborted"
              /\ event' = "load_failed"
    /\ UNCHANGED <<api_key, table_records, created, create_calls, added_count,
                   skipped_duplicates_count, batch_vars, page_vars, token_vars,
                   page_num, ajax_vars, net_vars, summary, norm_trace>>

(***************************************************************************)
(* main, lines 198-208: the initial page.                                  *)
(***************************************************************************)
\* lines 200-208 and 294-297: the page is fetched and its cards selected, or
\* the request (or raise_for_status) raises and main returns
FetchInitial ==
    /\ pc = "fetch_initial"
    /\ initial_requests' = initial_requests + 1
    /\ \E ok \in BOOLEAN, cards \in CardLists :
         IF ok
         THEN /\ article_cards' = cards
              /\ pc' = "cards_initial"
              /\ event' = "initial_fetched"
         ELSE /\ cards = <<>>
              /\ article_cards' = article_cards
              /\ pc' = "aborted"
              /\ event' = "initial_failed"
    /\ card_index' = 0
    /\ outcomes' = <<>>
    /\ UNCHANGED <<api_key, table_records, store_vars, page_vars, token_vars,
                   page_num, ajax_vars, ajax_requests, summary, norm_trace>>

(***************************************************************************)
(* process_and_add_articles, lines 95-158: one iteration of its loop.      *)
(***************************************************************************)
\* a faulty variant: the duplicate check never fires
IsDuplicateNever(url, known) == FALSE

\* line 121: if current_article_url in existing_urls
IsDuplicate(url, known) == url \in known

\* a faulty variant: the accepted URL is not remembered
RememberNothing(known, url) == known

\* line 153: existing_urls.add(current_article_url)
Remember(known, url) == known \cup {url}

\* a faulty variant: the try statement encloses the loop, so an exception ends it
AfterExceptionLeavesLoop(index, cards) == Len(cards)

\* lines 157-158: the handler is inside the loop, which goes on to the next card
AfterException(index, cards) == index + 1

\* lines 101-158 for the card at card_index.  extract_publication_date
\* (line 141) returns a date or None and never raises; the date only decides
\* whether the record carries a date field.  The hrefs of the model all
\* parse, so the branch for line 119 raising is kept for CardUrl's sake only.
ProcessCard ==
    /\ pc \in {"cards_initial", "cards_ajax"}
    /\ card_index < Len(article_cards)
    /\ LET card == article_cards[card_index + 1]
           url  == CardUrl(card)
       IN  IF ~card.has_link
           THEN \* lines 115-117
                /\ card_index' = card_index + 1
                /\ outcomes' = Append(outcomes, "NoLink")
                /\ UNCHANGED store_vars
           ELSE IF url = ValueError
           THEN \* line 119 raises
                /\ card_index' = AfterException(card_index, article_cards)
                /\ outcomes' = Append(outcomes, "Failed")
                /\ UNCHANGED store_vars
           ELSE IF IsDuplicate(url, existing_urls)
           THEN \* lines 121-124
                /\ card_index' = card_index + 1
                /\ outcomes' = Append(outcomes, "Skipped")
                /\ skipped_duplicates_count' = skipped_duplicates_count + 1
                /\ UNCHANGED <<existing_urls, created, create_calls, added_count>>
           ELSE \* lines 126-155: table.create stores the record or raises
                /\ create_calls' = create_calls + 1
                /\ \E stored \in BOOLEAN :
                     IF stored
                     THEN /\ created' = Append(created, url)
                          /\ existing_urls' = Remember(existing_urls, url)
                          /\ added_count' = added_count + 1
                          /\ card_index' = card_index + 1
                          /\ outcomes' = Append(outcomes, "Added")
                     ELSE /\ card_index' = AfterException(card_index, article_cards)
                          /\ outcomes' = Append(outcomes, "Failed")
                          /\ UNCHANGED <<existing_urls, created, added_count>>
                /\ UNCHANGED skipped_duplicates_count
    /\ UNCHANGED <<pc, api_key, table_records, article_cards, page_vars, token_vars,
                   page_num, ajax_vars, net_vars, event, summary, norm_trace>>

(***************************************************************************)
(* main, lines 210-297: the pagination tokens.                             *)
(***************************************************************************)
\* lines 210-226, once process_and_add_articles has returned: the inline
\* scripts of the page are searched for Drupal.settings
FindSettings ==
    /\ pc = "cards_initial"
    /\ card_index = Len(article_cards)
    /\ \E settings \in SettingsValues, text \in PageTexts :
         /\ drupal_settings_json' = settings
         /\ page_text' = text
    /\ pc' = "resolve"
    /\ article_cards' = <<>>
    /\ card_index' = 0
    /\ outcomes' = <<>>
    /\ UNCHANGED <<api_key, table_records, store_vars, token_vars, page_num,
                   ajax_vars, net_vars, event, summary, norm_trace>>

\* lines 228-297
ResolveTokens ==
    /\ pc = "resolve"
    /\ LET t == Resolve(drupal_settings_json, page_text)
       IN  /\ event' = t.event
           /\ IF t.ok
              THEN /\ pc' = "fetching"
                   /\ view_name' = t.view_name
                   /\ view_display_id' = t.view_display_id
                   /\ view_dom_id' = t.view_dom_id
              ELSE /\ pc' = "aborted"
                   /\ UNCHANGED token_vars
    /\ drupal_settings_json' = NoSettings
    /\ page_text' = NoPageText
    /\ UNCHANGED <<api_key, table_records, store_vars, batch_vars, page_num,
                   ajax_vars, net_vars, summary, norm_trace>>

(***************************************************************************)
(* main, lines 299-402: the pagination loop and the summary.               *)
(***************************************************************************)
\* a faulty variant: a failed request is tried again
AfterBreakRetries(outcome) == IF outcome = "http_error" THEN "fetching" ELSE "summary"

\* the break statements of lines 345-396 leave the loop for line 401
AfterBreak(outcome) == "summary"

\* a faulty variant: the increment runs on every attempt
PageAfterBreakIncrements(n) == n + 1

\* a break skips the increment of line 398
PageAfterBreak(n) == n

\* a break of the loop, for the reason given
Break(reason) ==
    /\ pc' = AfterBreak(reason)
    /\ event' = reason
    /\ page_num' = PageAfterBreak(page_num)
    /\ response' = NoResponse
    /\ response_json' = <<>>
    /\ new_cards_html' = ""

\* lines 303-323: one request to AJAX_ENDPOINT for page page_num
FetchAjax ==
    /\ pc = "fetching"
    /\ page_num <= MaxPage
    /\ ajax_requests' = ajax_requests + 1
    /\ \E kind \in ResponseKinds : response' = kind
    /\ pc' = "parse_body"
    /\ UNCHANGED <<api_key, table_records, store_vars, batch_vars, page_vars,
                   token_vars, page_num, response_json, new_cards_html,
                   initial_requests, event, summary, norm_trace>>

\* lines 323-352 and 393-396: the status is checked and the body parsed
ParseBody ==
    /\ pc = "parse_body"
    /\ IF BodyOutcome(response) = "parsed"
       THEN /\ \E commands \in CommandLists(view_name, view_display_id, view_dom_id) :
                 response_json' = commands
            /\ pc' = "select"
            /\ response' = NoResponse
            /\ UNCHANGED <<new_cards_html, page_num, event>>
       ELSE Break(BodyOutcome(response))
    /\ UNCHANGED <<api_key, table_records, store_vars, batch_vars, page_vars,
                   token_vars, net_vars, summary, norm_trace>>

\* lines 354-379: the HTML of the first accepted insert command is taken
SelectCommand ==
    /\ pc = "select"
    /\ LET html == SelectHtml(response_json, view_name, view_display_id, view_dom_id)
       IN  IF html = ""
           THEN Break("no_html")
           ELSE /\ new_cards_html' = html
                /\ pc' = "parse_cards"
                /\ response_json' = <<>>
                /\ UNCHANGED <<response, page_num, event>>
    /\ UNCHANGED <<api_key, table_records, store_vars, batch_vars, page_vars,
                   token_vars, net_vars, summary, norm_trace>>

\* lines 381-391: the cards of the HTML are selected
ParseCards ==
    /\ pc = "parse_cards"
    /\ \E cards \in CardLists :
         IF cards = <<>>
         THEN /\ Break("no_cards")
              /\ UNCHANGED batch_vars
         ELSE /\ article_cards' = cards
              /\ card_index' = 0
              /\ outcomes' = <<>>
              /\ pc' = "cards_ajax"
              /\ event' = "page_fetched"
              /\ new_cards_html' = ""
              /\ UNCHANGED <<page_num, response, response_json>>
    /\ UNCHANGED <<api_key, table_records, store_vars, page_vars, token_vars,
                   net_vars, summary, norm_trace>>

\* a faulty variant: a page whose cards were all duplicates ends the pagination
AfterBatchStopsOnDuplicates(results) ==
    IF Len(results) > 0 /\ \A i \in 1..Len(results) : results[i] = "Skipped"
    THEN "summary"
    ELSE "fetching"

\* lines 391-399: nothing reads what process_and_add_articles did with the
\* cards; the while True of line 302 goes round again
AfterBatch(results) == "fetching"

\* lines 398-399, once process_and_add_articles has returned
NextPage ==
    /\ pc = "cards_ajax"
    /\ card_index = Len(article_cards)
    /\ page_num' = page_num + 1
    /\ pc' = AfterBatch(outcomes)
    /\ article_cards' = <<>>
    /\ card_index' = 0
    /\ outcomes' = <<>>
    /\ UNCHANGED <<api_key, table_records, store_vars, page_vars, token_vars,
                   ajax_vars, net_vars, event, summary, norm_trace>>

\* lines 401-402
Finish ==
    /\ pc = "summary"
    /\ summary' = <<added_count, skipped_duplicates_count>>
    /\ pc' = "done"
    /\ UNCHANGED <<api_key, table_records, store_vars, batch_vars, page_vars,
                   token_vars, page_num, ajax_vars, net_vars, event, norm_trace>>

Next ==
    \/ CheckCredential
    \/ LoadExisting
    \/ FetchInitial
    \/ ProcessCard
    \/ FindSettings
    \/ ResolveTokens
    \/ FetchAjax
    \/ ParseBody
    \/ SelectCommand
    \/ ParseCards
    \/ NextPage
    \/ Finish

Spec == Init /\ [][Next]_vars

(***************************************************************************)
(* normalize_url as a function of its input alone: every string of at most *)
(* MaxLen characters is normalized, and the result normalized again.       *)
(***************************************************************************)
NormAlphabet == {"h", ":", "/", "?", "#", "["}

InitNorm ==
    /\ pc = "start"
    /\ api_key = TRUE
    /\ table_records = {}
    /\ existing_urls = {}
    /\ created = <<>>
    /\ create_calls = 0
    /\ added_count = 0
    /\ skipped_duplicates_count = 0
    /\ article_cards = <<>>
    /\ card_index = 0
    /\ outcomes = <<>>
    /\ drupal_settings_json = NoSettings
    /\ page_text = NoPageText
    /\ view_name = HardViewName
    /\ view_display_id = HardDisplayId
    /\ view_dom_id = HardDomId
    /\ page_num = 2
    /\ response = NoResponse
    /\ response_json = <<>>
    /\ new_cards_html = ""
    /\ initial_requests = 0
    /\ ajax_requests = 0
    /\ event = "started"
    /\ summary = NoSummary
    /\ norm_trace \in {<<u>> : u \in SeqsUpTo(NormAlphabet, MaxLen)}

\* normalize_url applied to the last string of the trace, unless it raised
Normalize ==
    /\ Len(norm_trace) \in 1..2
    /\ norm_trace[Len(norm_trace)] # ValueError
    /\ norm_trace' = Append(norm_trace, normalize_url(norm_trace[Len(norm_trace)]))
    /\ UNCHANGED <<pc, api_key, table_records, store_vars, batch_vars, page_vars,
                   token_vars, page_num, ajax_vars, net_vars, event, summary>>

NextNorm == Normalize

SpecNorm == InitNorm /\ [][NextNorm]_vars

(***************************************************************************)
(* Properties.                                                             *)
(***************************************************************************)
InBatch == pc \in {"cards_initial", "cards_ajax"}

\* the card the loop of process_and_add_articles takes next
HasNextCard == InBatch /\ card_index < Len(article_cards)

NextCard == article_cards[card_index + 1]

Ended == pc \in {"summary", "done"}

\* C1: a record is created at most once per normalized article URL and never
\* for a URL known at session start; every created record is counted as
\* Added; and when the same card is offered twice in a row and the first
\* offer is Added, the second is Skipped.
C1_CreatedOncePerUrl ==
    /\ \A i, j \in 1..Len(created) : i # j => created[i] # created[j]
    /\ \A i \in 1..Len(created) : created[i] \notin LoadedUrls(table_records)
    /\ added_count = Len(created)
    /\ \A i \in 1..(Len(outcomes) - 1) :
         (i + 1 <= Len(article_cards)
            /\ article_cards[i] = article_cards[i + 1]
            /\ outcomes[i] = "Added")
         => outcomes[i + 1] = "Skipped"

\* a batch offered the same new card twice: Added, then Skipped
C1_Witness ==
    /\ Len(article_cards) = 2
    /\ article_cards[1] = article_cards[2]
    /\ outcomes = <<"Added", "Skipped">>
    /\ created = <<CardUrl(article_cards[1])>>

\* C2: a card whose normalized URL is in existing_urls when it is offered is
\* Skipped: the skipped count grows by one, the added count stays, the store
\* receives no create call and existing_urls is unchanged.
C2_KnownUrlSkipped ==
    [][ (HasNextCard /\ NextCard.has_link /\ CardUrl(NextCard) \in existing_urls)
        => /\ skipped_duplicates_count' = skipped_duplicates_count + 1
           /\ added_count' = added_count
           /\ create_calls' = create_calls
           /\ created' = created
           /\ existing_urls' = existing_urls
           /\ outcomes' = Append(outcomes, "Skipped") ]_vars

\* a card was skipped as a duplicate of a URL loaded from the table
C2_Witness ==
    /\ InBatch
    /\ card_index > 0
    /\ outcomes[card_index] = "Skipped"
    /\ CardUrl(article_cards[card_index]) \in LoadedUrls(table_records)
    /\ skipped_duplicates_count > 0
    /\ create_calls = 0

\* C3: when table.create fails for a card, the card counts as neither Added
\* nor Skipped, its URL does not enter existing_urls, and the loop goes on
\* with the next card of the batch: main stays where it is, and every card
\* up to the loop's position has had its turn.
C3_CreateFailureContained ==
    [][ /\ (create_calls' = create_calls + 1 /\ created' = created)
           => /\ added_count' = added_count
              /\ skipped_duplicates_count' = skipped_duplicates_count
              /\ existing_urls' = existing_urls
              /\ article_cards' = article_cards
              /\ card_index' = card_index + 1
              /\ outcomes' = Append(outcomes, "Failed")
              /\ pc' = pc
        /\ InBatch' => (Len(outcomes') = card_index' /\ card_index' <= Len(article_cards')) ]_vars

\* the write of a card failed, and the next card (the same one again) was
\* then offered and stored: the failure neither ended the batch nor made the
\* URL known
C3_Witness ==
    /\ Len(article_cards) = 2
    /\ article_cards[1] = article_cards[2]
    /\ outcomes = <<"Failed", "Added">>
    /\ create_calls = 2
    /\ added_count = 1

\* the commands hold no insert command whose selector is accepted
NoAcceptedInsert(commands) ==
    \A i \in 1..Len(commands) :
        ~ /\ commands[i].command = "insert"
          /\ \/ commands[i].selector = DomSelector(view_dom_id)
             \/ commands[i].selector = BlockSelector(view_name, view_display_id)
             \/ commands[i].selector = ViewContentSelector
             \/ commands[i].selector = BlockInseadSelector

\* once the loop is left no page is requested and nothing is written
NothingAfterEnd ==
    Ended => /\ Ended'
             /\ ajax_requests' = ajax_requests
             /\ initial_requests' = initial_requests
             /\ UNCHANGED store_vars

\* C4: a response with no insert command for an accepted selector ends the
\* pagination without an error: main goes to its summary, no page is
\* requested afterwards, nothing is written for that page, the counts of the
\* earlier pages are unchanged and are the ones the summary reports.
C4_NoInsertEndsPagination ==
    [][ /\ (pc = "select" /\ NoAcceptedInsert(response_json))
           => /\ pc' = "summary"
              /\ UNCHANGED <<store_vars, net_vars, batch_vars>>
        /\ NothingAfterEnd
        /\ (pc = "summary" /\ pc' = "done")
           => summary' = <<added_count, skipped_duplicates_count>> ]_vars

\* the second incremental response held no accepted insert command; the
\* summary reports what the earlier pages added
C4_Witness ==
    /\ pc = "done"
    /\ event = "no_html"
    /\ ajax_requests = 2
    /\ added_count > 0
    /\ summary = <<added_count, skipped_duplicates_count>>

\* C5: a failed request for an incremental page (transport failure or
\* non-success status) ends the pagination: main goes to its summary, the
\* page is not requested again, and the records created and the URLs learnt
\* from earlier pages are kept.
C5_FetchFailureEndsPagination ==
    [][ /\ (pc = "parse_body" /\ response = "http_error")
           => /\ pc' = "summary"
              /\ event' = "http_error"
              /\ UNCHANGED <<store_vars, net_vars, batch_vars, token_vars>>
        /\ NothingAfterEnd ]_vars

\* the request for the second incremental page failed after the earlier
\* pages had added a record
C5_Witness ==
    /\ Ended
    /\ event = "http_error"
    /\ ajax_requests = 2
    /\ Len(created) > 0
    /\ created[1] \in existing_urls

\* C6: without the credential, or when the existing URLs cannot be loaded,
\* the run aborts before any scraping: no feed page, initial or incremental,
\* is requested and no record is created.
C6_StartupFailureAborts ==
    ((~api_key /\ pc # "start") \/ event = "load_failed")
    => /\ pc = "aborted"
       /\ initial_requests = 0
       /\ ajax_requests = 0
       /\ create_calls = 0
       /\ created = <<>>

\* the run aborted because table.all() failed
C6_Witness == pc = "aborted" /\ api_key /\ event = "load_failed"

C8_Original ==
    (pc = "fetching" \/ Ended) => page_num = 2 + ajax_requests

\* C8 as amended: the page index grows only after an attempt that yielded
\* cards; the attempt that ends the pagination leaves it as it was.  Before
\* each request it is the first index plus the number of attempts made, and
\* from a request on (and after the loop) it is one less than that.
C8_IndexGrowsAfterData ==
    /\ pc = "fetching" => page_num = 2 + ajax_requests
    /\ (pc \in {"parse_body", "select", "parse_cards", "cards_ajax"} \/ Ended)
       => page_num = 2 + ajax_requests - 1

\* the second attempt ended the pagination and left the index at 3
C8_Witness == Ended /\ ajax_requests = 2 /\ page_num = 3

\* the page holds settings, but no views entry names the feed path
NoEntryForFeed(settings) ==
    /\ settings.found
    /\ \A i \in 1..Len(settings.views) :
         ~(settings.views[i].ajax /\ settings.views[i].view_path = FeedPath)

\* C9 as stated: when Drupal.settings is absent, or present without a views
\* entry for the feed path, the DOM anchor id is taken from the regex over
\* the page text before the hardcoded default is used: if the regex finds an
\* id in a page that decodes, that id is the one resolved.
C9_Original ==
    [][ (/\ pc = "resolve"
         /\ (~drupal_settings_json.found \/ NoEntryForFeed(drupal_settings_json))
         /\ page_text.decodable
         /\ page_text.regex_dom_id # Absent)
        => (pc' = "fetching" /\ view_dom_id' = page_text.regex_dom_id) ]_vars

\* C9 as amended: the regex is tried only when Drupal.settings is absent (or
\* is the empty object); when the settings are there without a views entry
\* for the feed path, the hardcoded DOM anchor id is used and the regex is
\* not consulted.
C9_RegexOnlyWithoutSettings ==
    [][ (/\ pc = "resolve"
         /\ page_text.decodable
         /\ page_text.regex_dom_id # Absent)
        => /\ ~Truthy(drupal_settings_json)
              => (pc' = "fetching" /\ view_dom_id' = page_text.regex_dom_id)
           /\ (Truthy(drupal_settings_json) /\ NoEntryForFeed(drupal_settings_json))
              => (pc' = "fetching" /\ view_dom_id' = HardDomId) ]_vars

\* the DOM anchor id in use is the one the regex found
C9_Witness ==
    /\ pc = "fetching"
    /\ event = "regex"
    /\ view_dom_id = "abcd"

\* C10: normalize_url never fails, and normalizing a normalized string
\* changes nothing, for every input string.
C10_NormalizeIdempotent ==
    \A i \in 2..Len(norm_trace) :
        /\ norm_trace[i] # ValueError
        /\ i >= 3 => norm_trace[i] = norm_trace[i - 1]

\* the first insert command for an accepted selector carries the empty
\* string: a fragment that holds no card
FirstAcceptedPayloadEmpty(commands) ==
    \E i \in 1..Len(commands) :
        /\ ~NoAcceptedInsert(<<commands[i]>>)
        /\ commands[i].data = ""
        /\ NoAcceptedInsert(SubSeq(commands, 1, i - 1))

\* the step that leaves the loop does so for one of the four reasons: the
\* request failed; the body is not a list of commands by any parsing path;
\* no insert command names an accepted selector; the fragment holds no card
EndsForListedReason ==
    \/ /\ pc = "parse_body"
       /\ response = "http_error"
    \/ /\ pc = "parse_body"
       /\ response \in {"textarea_bad", "not_json", "null", "object"}
    \/ /\ pc = "select"
       /\ NoAcceptedInsert(response_json)
    \/ /\ pc = "select"
       /\ FirstAcceptedPayloadEmpty(response_json)
    \/ /\ pc = "parse_cards"
       /\ event' = "no_cards"
       /\ article_cards' = <<>>

====
